---- MODULE Spec2Model ----
(***************************************************************************)
(* The FactoryDashboard screen of src/pages/dashboard/FactoryDashboard.jsx *)
(* as a state machine: one component instance with its four useState      *)
(* cells, the interval of the simulator effect, the profile reads issued   *)
(* by the fetch effect, and the console.error log.                         *)
(*                                                                         *)
(* Numbers.  coLevel and co2Level are JavaScript doubles.  They are held   *)
(* here in fixed point, in units of 1/RandGrid ppm, and Math.random() is   *)
(* drawn from the grid k/RandGrid, k \in 0..RandGrid.  The top end k =     *)
(* RandGrid stands for the largest double below 1: for it                  *)
(* prev + (Math.random() * 2 - 1) rounds to prev + 1 in double arithmetic  *)
(* for every prev in [5, 40], and likewise prev + 5 for co2Level.          *)
(***************************************************************************)
EXTENDS Integers, Sequences, FiniteSets, TLC

VARIABLES
    phase,          \* "constructed" (rendered once, effects not yet run),
                    \* "active" (mounted), "deactivated" (unmounted)
    currentUser,    \* useAuth().currentUser: a uid or NoUser
    factory,        \* useState(null)
    loading,        \* useState(true)
    coLevel,        \* useState(15), in 1/RandGrid ppm
    co2Level,       \* useState(450), in 1/RandGrid ppm
    liveIntervals,  \* intervals set by setInterval and not yet cleared
    intervalsSet,   \* history: number of setInterval calls
    pending,        \* getDoc reads in flight: records [id, uid]
    reads,          \* history: number of getDoc calls issued
    log,            \* console.error events, in order
    rejected        \* whether a call of fetchFactoryData ended in a rejection

vars == <<phase, currentUser, factory, loading, coLevel, co2Level,
          liveIntervals, intervalsSet, pending, reads, log, rejected>>

----------------------------------------------------------------------------
(* Bounds of the model *)

RandGrid == 1
MaxReads == 2

(* Program constants *)

CoInit == 15
Co2Init == 450
CoMin == 5
CoMax == 40
Co2Min == 350
Co2Max == 600
CoSpan == 2
CoShift == 1
Co2Span == 10
Co2Shift == 5
CoDanger == 25
CoWarning == 20
Co2Danger == 500
Co2Warning == 450

----------------------------------------------------------------------------
(* The world outside the screen: identities and the document store *)

NoUser == "null"
Users == {"U1", "U2"}

NoFactory == [name |-> "", location |-> "", industry |-> <<>>, rating |-> 0]

\* The 'factories' collection read by getDoc: U1 has a document, U2 has none.
\* A stored industry is kept as its pieces, so that replace('_', ' ') can act
\* on it: "metal_production".
Store ==
    [u \in Users |->
        CASE u = "U1" -> {[name |-> "Acme Steel", location |-> "Ohio",
                           industry |-> <<"metal", "_", "production">>, rating |-> 4]}
          [] OTHER -> {}]

\* getDoc(doc(db, 'factories', currentUser.uid)): resolves with a snapshot, or
\* rejects; reading .uid of a null user throws inside the try block.
GetDoc(uid, fails) ==
    IF fails \/ uid \notin Users THEN [kind |-> "rejects", data |-> NoFactory]
    ELSE IF Store[uid] = {} THEN [kind |-> "missing", data |-> NoFactory]
    ELSE [kind |-> "exists", data |-> CHOOSE d \in Store[uid] : TRUE]

----------------------------------------------------------------------------
(* The simulator: the setInterval callback *)

Max(a, b) == IF a > b THEN a ELSE b
Min(a, b) == IF a < b THEN a ELSE b

\* Math.random() * span - shift for the draw k/RandGrid, in 1/RandGrid ppm
Perturbation(k, span, shift) == k * span - shift * RandGrid

\* NextCo with the clamp applied to prev, before the perturbation
NextCoClampFirst(prev, k) ==
    Max(CoMin * RandGrid, Min(CoMax * RandGrid, prev)) + Perturbation(k, CoSpan, CoShift)

NextCo(prev, k) ==
    LET newValue == prev + Perturbation(k, CoSpan, CoShift)
    IN Max(CoMin * RandGrid, Min(CoMax * RandGrid, newValue))

\* NextCo2 without its Math.min
NextCo2NoUpper(prev, k) ==
    LET newValue == prev + Perturbation(k, Co2Span, Co2Shift)
    IN Max(Co2Min * RandGrid, newValue)

NextCo2(prev, k) ==
    LET newValue == prev + Perturbation(k, Co2Span, Co2Shift)
    IN Max(Co2Min * RandGrid, Min(Co2Max * RandGrid, newValue))

----------------------------------------------------------------------------
(* The render: loading branch, status classification, header *)

\* CoStatus with >= for >
CoStatusInclusive(v) ==
    IF v >= CoDanger * RandGrid THEN "danger"
    ELSE IF v >= CoWarning * RandGrid THEN "warning" ELSE "success"

CoStatus(v) ==
    IF v > CoDanger * RandGrid THEN "danger"
    ELSE IF v > CoWarning * RandGrid THEN "warning" ELSE "success"

Co2Status(v) ==
    IF v > Co2Danger * RandGrid THEN "danger"
    ELSE IF v > Co2Warning * RandGrid THEN "warning" ELSE "success"

\* String.prototype.replace('_', ' '): the first underscore only
RECURSIVE ReplaceFirst(_)
ReplaceFirst(s) ==
    IF s = <<>> THEN <<>>
    ELSE IF Head(s) = "_" THEN <<" ">> \o Tail(s)
    ELSE <<Head(s)>> \o ReplaceFirst(Tail(s))

\* factory?.name || 'Your Factory', and so on: null and falsy fields fall back
Header(f) ==
    [name     |-> IF f = NoFactory \/ f.name = "" THEN "Your Factory" ELSE f.name,
     location |-> IF f = NoFactory \/ f.location = "" THEN "Location" ELSE f.location,
     industry |-> IF f = NoFactory \/ f.industry = <<>>
                  THEN <<"Industry">> ELSE ReplaceFirst(f.industry),
     rating   |-> IF f = NoFactory THEN 0 ELSE f.rating]

Render ==
    IF loading THEN [view |-> "spinner"]
    ELSE [view |-> "dashboard", header |-> Header(factory),
          coStatus |-> CoStatus(coLevel), co2Status |-> Co2Status(co2Level)]

----------------------------------------------------------------------------
(* The fetch: fetchFactoryData after its await *)

\* TryBlock without the exists() test: setFactory(factoryDoc.data()) always
TryBlockNoExistsTest(f, lg, snap) ==
    IF snap.kind = "rejects" THEN [factory |-> f, log |-> lg, thrown |-> TRUE]
    ELSE [factory |-> snap.data, log |-> lg, thrown |-> FALSE]

\* The try block: setFactory on a snapshot that exists, console.error on one
\* that does not; a rejected getDoc throws.
TryBlock(f, lg, snap) ==
    IF snap.kind = "rejects" THEN [factory |-> f, log |-> lg, thrown |-> TRUE]
    ELSE IF snap.kind = "exists"
         THEN [factory |-> snap.data, log |-> lg, thrown |-> FALSE]
         ELSE [factory |-> f, log |-> Append(lg, "NoDocument"), thrown |-> FALSE]

\* The catch block: console.error, and the error is swallowed
CatchBlock(r) ==
    IF r.thrown THEN [r EXCEPT !.log = Append(r.log, "FetchError"), !.thrown = FALSE]
    ELSE r

\* try / catch / finally: the state after the continuation has run
Settle(f, lg, snap) ==
    LET r == CatchBlock(TryBlock(f, lg, snap))
    IN [factory |-> r.factory, log |-> r.log, loading |-> FALSE, thrown |-> r.thrown]

----------------------------------------------------------------------------
(* The effects *)

\* SimulatorDeps with currentUser in the dependency array
SimulatorDepsUser == {"currentUser"}

\* The dependency arrays: [] and [currentUser]
SimulatorDeps == {}
FetchDeps == {"currentUser"}

\* setInterval(..., 5000) and clearInterval(interval), on the count of live
\* intervals
SetInterval(n) == n + 1
ClearInterval(n) == n - 1

\* SimulatorCleanup of an effect that returns no cleanup
SimulatorNoCleanup(n) == n

\* The simulator effect's cleanup: () => clearInterval(interval)
SimulatorCleanup(n) == ClearInterval(n)

\* FetchSetup without the early return on a missing user
FetchSetupNoGuard(user) ==
    /\ reads' = reads + 1
    /\ pending' = pending \cup {[id |-> reads + 1, uid |-> user]}

\* fetchFactoryData() up to its await: no read without a user
FetchSetup(user) ==
    IF user = NoUser
    THEN UNCHANGED <<pending, reads>>
    ELSE /\ reads' = reads + 1
         /\ pending' = pending \cup {[id |-> reads + 1, uid |-> user]}

\* A re-render in which the values named in changed differ from the last
\* render: an effect whose dependencies changed is cleaned up and run again
RerunSimulatorEffect(changed) ==
    IF SimulatorDeps \cap changed # {}
    THEN /\ liveIntervals' = SetInterval(SimulatorCleanup(liveIntervals))
         /\ intervalsSet' = intervalsSet + 1
    ELSE UNCHANGED <<liveIntervals, intervalsSet>>

RerunFetchEffect(changed, user) ==
    IF FetchDeps \cap changed # {}
    THEN FetchSetup(user)
    ELSE UNCHANGED <<pending, reads>>

----------------------------------------------------------------------------
(* The actions *)

Init ==
    /\ phase = "constructed"
    /\ currentUser \in Users \cup {NoUser}
    /\ factory = NoFactory
    /\ loading = TRUE
    /\ coLevel = CoInit * RandGrid
    /\ co2Level = Co2Init * RandGrid
    /\ liveIntervals = 0
    /\ intervalsSet = 0
    /\ pending = {}
    /\ reads = 0
    /\ log = <<>>
    /\ rejected = FALSE

\* Activation: the first commit runs both effects
Mount ==
    /\ phase = "constructed"
    /\ phase' = "active"
    /\ liveIntervals' = SetInterval(liveIntervals)
    /\ intervalsSet' = intervalsSet + 1
    /\ FetchSetup(currentUser)
    /\ UNCHANGED <<currentUser, factory, loading, coLevel, co2Level, log, rejected>>

\* The interval fires: both functional updates run
Tick ==
    /\ liveIntervals > 0
    /\ \E k1 \in 0..RandGrid, k2 \in 0..RandGrid :
          /\ coLevel' = NextCo(coLevel, k1)
          /\ co2Level' = NextCo2(co2Level, k2)
    /\ UNCHANGED <<phase, currentUser, factory, loading, liveIntervals,
                   intervalsSet, pending, reads, log, rejected>>

\* The authentication context presents another identity (or none): the
\* screen re-renders and the effects that depend on currentUser run again
ChangeUser ==
    /\ phase = "active"
    /\ reads < MaxReads
    /\ \E u \in (Users \cup {NoUser}) \ {currentUser} :
          /\ currentUser' = u
          /\ RerunSimulatorEffect({"currentUser"})
          /\ RerunFetchEffect({"currentUser"}, u)
    /\ UNCHANGED <<phase, factory, loading, coLevel, co2Level, log, rejected>>

\* The read req comes back and the rest of fetchFactoryData runs
FetchCompleteOf(req, fails) ==
    LET s == Settle(factory, log, GetDoc(req.uid, fails))
    IN /\ req \in pending
       /\ pending' = pending \ {req}
       /\ factory' = s.factory
       /\ log' = s.log
       /\ loading' = s.loading
       /\ rejected' = (rejected \/ s.thrown)
       /\ UNCHANGED <<phase, currentUser, coLevel, co2Level, liveIntervals,
                      intervalsSet, reads>>

FetchComplete == \E req \in pending, fails \in BOOLEAN : FetchCompleteOf(req, fails)

\* Deactivation: the effect cleanups run
Unmount ==
    /\ phase = "active"
    /\ phase' = "deactivated"
    /\ liveIntervals' = SimulatorCleanup(liveIntervals)
    /\ UNCHANGED <<currentUser, factory, loading, coLevel, co2Level, intervalsSet,
                   pending, reads, log, rejected>>

Next == Mount \/ Tick \/ ChangeUser \/ FetchComplete \/ Unmount

Spec == Init /\ [][Next]_vars

\* The store answers every read and a live interval keeps firing
FairSpec == Spec /\ WF_vars(FetchComplete) /\ WF_vars(Tick)

----------------------------------------------------------------------------
(* Properties *)

Placeholders ==
    [name |-> "Your Factory", location |-> "Location",
     industry |-> <<"Industry">>, rating |-> 0]

\* C1: in every reachable state the tracked CO value lies in [5, 40] ppm and
\* the tracked CO2 value in [350, 600] ppm, whatever the perturbations were.
C1_LevelsInRange ==
    /\ 5 * RandGrid <= coLevel /\ coLevel <= 40 * RandGrid
    /\ 350 * RandGrid <= co2Level /\ co2Level <= 600 * RandGrid

\* C1 witness: the walk has taken CO to its upper and CO2 to its lower bound.
C1_Witness ==
    /\ phase = "active"
    /\ coLevel = 40 * RandGrid
    /\ co2Level = 350 * RandGrid

\* C2: deactivation cancels the interval, and in no step from a deactivated
\* screen do the CO and CO2 values change.
C2_NoTickAfterDeactivation ==
    [][/\ phase' = "deactivated" => liveIntervals' = 0
       /\ phase = "deactivated" => (coLevel' = coLevel /\ co2Level' = co2Level)]_vars

\* C2 witness: a screen deactivated after the simulator has moved both values,
\* with a read still in flight, so that steps from the deactivated screen exist.
C2_Witness ==
    /\ phase = "deactivated"
    /\ coLevel # CoInit * RandGrid
    /\ co2Level # Co2Init * RandGrid
    /\ pending # {}

\* C3: a fetch result that arrives after deactivation is discarded: no step
\* from a deactivated screen changes its profile record or its loading flag.
C3_LateResultDiscarded ==
    [][phase = "deactivated" => (factory' = factory /\ loading' = loading)]_vars

\* C4: a completing read is handled by its outcome.  A record becomes the
\* profile and nothing is logged; not-found leaves the profile as it was and
\* logs the not-found event; a failed read leaves the profile as it was and
\* logs the error event; an unset profile shows the placeholders; and in no
\* outcome does the call of fetchFactoryData reject.
C4_FetchOutcomes ==
    [][\A req \in pending, fails \in BOOLEAN :
          FetchCompleteOf(req, fails) =>
             /\ ~rejected'
             /\ (~fails /\ Store[req.uid] # {}) =>
                   (factory' \in Store[req.uid] /\ log' = log)
             /\ (~fails /\ Store[req.uid] = {}) =>
                   /\ factory' = factory
                   /\ log' = Append(log, "NoDocument")
                   /\ factory = NoFactory => Header(factory') = Placeholders
             /\ fails =>
                   /\ factory' = factory
                   /\ log' = Append(log, "FetchError")
                   /\ factory = NoFactory => Header(factory') = Placeholders]_vars

\* C4 witness: one read came back not-found and one failed, each logged with
\* its own event, and the dashboard is rendered with the placeholders.
C4_Witness ==
    /\ pending = {}
    /\ log = <<"NoDocument", "FetchError">>
    /\ Render = [view |-> "dashboard", header |-> Placeholders,
                 coStatus |-> CoStatus(coLevel), co2Status |-> Co2Status(co2Level)]

\* C5: in every rendered dashboard the CO tier is danger exactly above 25,
\* warning exactly in (20, 25] and ok ('success') exactly up to 20, and the
\* CO2 tier is danger exactly above 500, warning exactly in (450, 500] and ok
\* exactly up to 450.
C5_StatusTiers ==
    ~loading =>
       /\ (Render.coStatus = "danger") <=> (coLevel > 25 * RandGrid)
       /\ (Render.coStatus = "warning") <=>
             (coLevel > 20 * RandGrid /\ coLevel <= 25 * RandGrid)
       /\ (Render.coStatus = "success") <=> (coLevel <= 20 * RandGrid)
       /\ (Render.co2Status = "danger") <=> (co2Level > 500 * RandGrid)
       /\ (Render.co2Status = "warning") <=>
             (co2Level > 450 * RandGrid /\ co2Level <= 500 * RandGrid)
       /\ (Render.co2Status = "success") <=> (co2Level <= 450 * RandGrid)

\* C5 witness: a rendered dashboard with CO at exactly 25 and CO2 at exactly
\* 500, the upper ends of the warning tiers.
C5_Witness ==
    /\ ~loading
    /\ coLevel = 25 * RandGrid
    /\ co2Level = 500 * RandGrid

\* C6: a step issues one read when it presents an identity to the screen (at
\* activation, or by a change of identity) and no read otherwise: none for an
\* absent identity and none when a read comes back not-found or failed; and a
\* read issued is a read for the identity presented.
C6_OneReadPerIdentity ==
    [][LET presents == /\ currentUser' # NoUser
                       /\ \/ phase = "constructed" /\ phase' = "active"
                          \/ currentUser' # currentUser
       IN /\ reads' = reads + (IF presents THEN 1 ELSE 0)
          /\ Cardinality(pending' \ pending) = (IF presents THEN 1 ELSE 0)
          /\ \A r \in pending' \ pending : r.uid = currentUser']_vars

\* C6 witness: the one read of an active screen has failed and no other read
\* was issued.
C6_Witness ==
    /\ phase = "active"
    /\ currentUser # NoUser
    /\ reads = 1
    /\ pending = {}
    /\ log = <<"FetchError">>

\* C7: an active screen always eventually leaves the loading state.
C7_EventuallyRendered ==
    (phase = "active") ~> (~loading \/ phase = "deactivated")

\* C8: the screen owns no interval before activation, exactly one while it is
\* active and none once deactivated, and setInterval has been called exactly
\* once from activation on.
C8_OneIntervalWhileActive ==
    /\ liveIntervals <= 1
    /\ phase = "constructed" => (liveIntervals = 0 /\ intervalsSet = 0)
    /\ phase = "active" => (liveIntervals = 1 /\ intervalsSet = 1)
    /\ phase = "deactivated" => (liveIntervals = 0 /\ intervalsSet = 1)

\* C8 witness: an active screen after a change of identity and the completion
\* of both reads.
C8_Witness ==
    /\ phase = "active"
    /\ reads = 2
    /\ pending = {}
    /\ liveIntervals = 1

\* C9: every step takes each value to the clamp of the previous value plus a
\* perturbation of at most 1 ppm (CO) and 5 ppm (CO2), so it moves CO by at
\* most 1 and CO2 by at most 5; and while the interval is live, loading or
\* not and at a bound or not, a tick that changes both values can fire.
C9_TickPerturbsThenClamps ==
    /\ [][/\ \E d1 \in (-RandGrid)..RandGrid :
                coLevel' = Max(5 * RandGrid, Min(40 * RandGrid, coLevel + d1))
          /\ \E d2 \in (-5 * RandGrid)..(5 * RandGrid) :
                co2Level' = Max(350 * RandGrid, Min(600 * RandGrid, co2Level + d2))
          /\ coLevel' - coLevel \in (-RandGrid)..RandGrid
          /\ co2Level' - co2Level \in (-5 * RandGrid)..(5 * RandGrid)]_vars
    /\ [](liveIntervals > 0 =>
             ENABLED (Tick /\ coLevel' # coLevel /\ co2Level' # co2Level))

\* C9 witness: the screen is still loading and ticks have taken CO to its
\* lower and CO2 to its upper bound.
C9_Witness ==
    /\ loading
    /\ liveIntervals > 0
    /\ coLevel = 5 * RandGrid
    /\ co2Level = 600 * RandGrid

\* C10: when no read is in flight, a profile displayed for the current
\* identity is the store's record of that identity.
C10_ProfileOfCurrentIdentity ==
    (phase = "active" /\ pending = {} /\ currentUser # NoUser /\ factory # NoFactory)
        => factory \in Store[currentUser]

====
